---- MODULE Spec2Model ----
(***************************************************************************)
(* Model of emepy/geometries.py: the parameter object with its solver      *)
(* factories, the DynamicRect2D geometry (design vector, vertex assembly,  *)
(* subpixel rasterization) and the composite geometries (Waveguide,        *)
(* WaveguideChannels, BraggGrating, DirectionalCoupler).                   *)
(*                                                                         *)
(* Numbers.  Coordinates live on an integer lattice (one lattice unit is   *)
(* the finest length of the model); every grid line and every vertex is a  *)
(* lattice point.  Areas are measured in unit lattice squares: a unit      *)
(* square belongs to a shape when its centre does.  Centres are written    *)
(* in doubled coordinates (2a+1, 2b+1) so that no division is needed.      *)
(* An index value is a rational [num, den], or NaN.                        *)
(***************************************************************************)
EXTENDS Integers, Sequences, FiniteSets, TLC

VARIABLES
    params,     \* the EMpyGeometryParameters object of the run
    self,       \* the DynamicRect2D object (its attributes), or Unbuilt
    ret,        \* outcome of the last call: [op, arg, val] or [op, arg, raised]
    vertices,   \* the local list `vertices` of the last get_n run
    lastArg,    \* history: the argument of the most recent set_design call
    heap,       \* concurrent runs: instance -> DynamicRect2D object
    thr,        \* concurrent runs: thread -> frame of its set_design call
    writer,     \* concurrent runs: instance -> thread that wrote design last
    geom,       \* composite runs: the geometry object built last
    chan        \* composite runs: frame of a running WaveguideChannels.__init__

vars == <<params, self, ret, vertices, lastArg, heap, thr, writer, geom, chan>>

(***************************************************************************)
(* Bounds and input sets                                                   *)
(***************************************************************************)
\* longest design vector an optimizer passes to set_design
MaxDesignLen == 4

\* values of the entries of a design vector passed to set_design
Coord == {0, 1}

\* an optional value is a list of at most one element: None, or Some(v)
None == <<>>

Some(v) == <<v>>

Val(o) == o[1]

\* what a float array holds where None was stored
NaN == [num |-> 0, den |-> 0]

\* no object: the constructor raised, or none was built yet
Unbuilt == [built |-> FALSE]

\* the `raised` field of a call that returned
NoExc == "none"

(***************************************************************************)
(* Python and numpy helpers                                                *)
(***************************************************************************)
\* s[start:stop:step] for 0 <= start, stop <= len(s), step > 0
Slice(s, start, stop, step) ==
    LET cnt == IF stop > start THEN (stop - start + step - 1) \div step ELSE 0
    IN  [k \in 1..cnt |-> s[start + (k - 1) * step + 1]]

\* s[:-1:2]: a stop of -1 is len(s) - 1, and 0 for the empty list
SliceEven(s) == Slice(s, 0, IF Len(s) = 0 THEN 0 ELSE Len(s) - 1, 2)

\* s[1::2]
SliceOdd(s) == Slice(s, IF Len(s) = 0 THEN 0 ELSE 1, Len(s), 2)

\* zip(a, b): stops at the shorter argument
Zip(a, b) ==
    LET cnt == IF Len(a) < Len(b) THEN Len(a) ELSE Len(b)
    IN  [k \in 1..cnt |-> <<a[k], b[k]>>]

\* s[::-1]
Reverse(s) == [k \in 1..Len(s) |-> s[Len(s) - k + 1]]

\* [i for j in pairs for i in j]
Flatten(pairs) ==
    [k \in 1..(2 * Len(pairs)) |-> pairs[(k + 1) \div 2][IF k % 2 = 1 THEN 1 ELSE 2]]

\* np.linspace(a, b, n) on the lattice (the inputs make the steps whole)
Linspace(a, b, n) ==
    [k \in 1..n |-> IF n = 1 THEN a ELSE a + ((k - 1) * (b - a)) \div (n - 1)]

\* a / b rounded to the nearest lattice value, a >= 0, b > 0
RoundDiv(a, b) == (2 * a + b) \div (2 * b)

\* 1000 * sin(pi * k / m) for the fractions the constructor samples
SinMilli(k, m) ==
    CASE 2 * k = m -> 1000
      [] 4 * k = m \/ 4 * k = 3 * m -> 707
      [] 3 * k = m \/ 3 * k = 2 * m -> 866
      [] 6 * k = m \/ 6 * k = 5 * m -> 500
      [] OTHER -> 0

Frac(n, d) == [num |-> n, den |-> d]

(***************************************************************************)
(* Shapes and areas (shapely)                                              *)
(***************************************************************************)
\* Point(cx, cz).buffer(r); cz2 and r2 are the doubled centre and radius
Disk(cz2, r2) == [kind |-> "disk", cz2 |-> cz2, r2 |-> r2, vs |-> <<>>]

\* Polygon(vs)
Poly(vs) == [kind |-> "poly", cz2 |-> 0, r2 |-> 0, vs |-> vs]

\* does the edge (a, b) cross the ray from p towards +x (p in doubled coordinates)
Crosses(p, a, b) ==
    LET ax == 2 * a[1]
        az == 2 * a[2]
        bx == 2 * b[1]
        bz == 2 * b[2]
    IN  /\ (az > p[2]) # (bz > p[2])
        /\ IF bz > az
           THEN (p[1] - ax) * (bz - az) < (p[2] - az) * (bx - ax)
           ELSE (p[1] - ax) * (bz - az) > (p[2] - az) * (bx - ax)

\* p (doubled coordinates) lies in the shape: the disk, or the polygon by the
\* even-odd rule
InShape(shape, p) ==
    IF shape.kind = "disk"
    THEN p[1] * p[1] + (p[2] - shape.cz2) * (p[2] - shape.cz2) <= shape.r2 * shape.r2
    ELSE LET n == Len(shape.vs)
         IN  /\ n >= 3
             /\ Cardinality({k \in 1..n :
                    Crosses(p, shape.vs[k], shape.vs[(k % n) + 1])}) % 2 = 1

\* pixel_poly.intersection(polygon).area, in unit lattice squares
IntersectionArea(xl, xu, zl, zu, shape) ==
    Cardinality({c \in (xl..(xu - 1)) \X (zl..(zu - 1)) :
        InShape(shape, <<2 * c[1] + 1, 2 * c[2] + 1>>)})

\* distance (doubled) from the coordinate c2 to the interval [lo2, hi2]
Gap(c2, lo2, hi2) == IF c2 < lo2 THEN lo2 - c2 ELSE IF c2 > hi2 THEN c2 - hi2 ELSE 0

\* pixel_poly.intersects(polygon): the closed cell and the shape share a point
\* (disk: the cell's nearest point is within the radius, touching included)
Intersects(xl, xu, zl, zu, shape) ==
    IF shape.kind = "disk"
    THEN LET dx == Gap(0, 2 * xl, 2 * xu)
             dz == Gap(shape.cz2, 2 * zl, 2 * zu)
         IN  dx * dx + dz * dz <= shape.r2 * shape.r2
    ELSE IntersectionArea(xl, xu, zl, zu, shape) > 0

(***************************************************************************)
(* Outcomes of a call                                                      *)
(***************************************************************************)
Ok(v) == [raised |-> NoExc, val |-> v]

Raise(e) == [raised |-> e, val |-> None]

(***************************************************************************)
(* EMpyGeometryParameters                                                  *)
(***************************************************************************)
\* EMpyGeometryParameters(...): the attributes the geometries read; core, clad
\* and x are optional
EMpyGeometryParameters(wl, cw, core, clad, x, mesh) ==
    [wavelength |-> wl, cladding_width |-> cw, core_index |-> core,
     cladding_index |-> clad, x |-> x, mesh |-> mesh]

(***************************************************************************)
(* DynamicRect2D                                                           *)
(***************************************************************************)
\* the flat design the constructor generates
InitialDesign(width, length, num_params, symmetry) ==
    LET z == Slice(Linspace(0, length, num_params + 2), 1, num_params + 1, 1)
        x == [k \in 1..num_params |->
                width \div 2
                + RoundDiv(SinMilli(z[k], length) * (width \div 2), 1000)]
        dynamic_vertices_top == Zip(x, z)
        xb == [k \in 1..num_params |-> -(width \div 2)]
        zb == Reverse(z)
        dynamic_vertices_bottom == Zip(xb, zb)
    IN  Flatten(IF symmetry
                THEN dynamic_vertices_top
                ELSE dynamic_vertices_top \o dynamic_vertices_bottom)

\* the attributes __init__ assigns before it calls set_design
InitAttributes(p, width, length, symmetry, subpixel, mesh_z) ==
    [built |-> TRUE, symmetry |-> symmetry, subpixel |-> subpixel,
     width |-> width, length |-> length,
     grid_x |-> IF p.x # None THEN Val(p.x)
                ELSE Linspace(-(p.cladding_width \div 2), p.cladding_width \div 2, p.mesh),
     grid_z |-> Linspace(0, length, mesh_z),
     static_vertices_left |-> << <<-(width \div 2), 0>>, <<width \div 2, 0>> >>,
     static_vertices_right |-> << <<width \div 2, length>>, <<-(width \div 2), length>> >>,
     design |-> <<>>,
     layers |-> None]

\* top = self.design if self.symmetry else self.design[: len(self.design) // 2]
\* (obj is the list read for the slice, lenOf the list read for len)
TopOf(symmetry, obj, lenOf) ==
    IF symmetry THEN obj
    ELSE Slice(obj, 0, IF Len(lenOf) \div 2 < Len(obj) THEN Len(lenOf) \div 2 ELSE Len(obj), 1)

\* bottom = self.design if self.symmetry else self.design[len(self.design) // 2 :]
BottomOf(symmetry, obj, lenOf) ==
    IF symmetry THEN obj
    ELSE Slice(obj, IF Len(lenOf) \div 2 < Len(obj) THEN Len(lenOf) \div 2 ELSE Len(obj),
               Len(obj), 1)

\* [(x, z) for x, z in zip(top[:-1:2], top[1::2])]
Pairs(flat) == Zip(SliceEven(flat), SliceOdd(flat))

\* mutant of MirrorPairs: the bottom vertices are reversed but not negated
MirrorPairsNotNegated(flat) == Reverse(Pairs(flat))

\* [(-x, z) for x, z in list(zip(bottom[:-1:2], bottom[1::2]))[::-1]]
MirrorPairs(flat) ==
    LET r == Reverse(Pairs(flat))
    IN  [k \in 1..Len(r) |-> <<-(r[k][1]), r[k][2]>>]

\* the list `vertices` get_n assembles from the lists top and bottom it read
AssembleVertices(obj, top, bottom) ==
    obj.static_vertices_left
    \o Pairs(top)
    \o obj.static_vertices_right
    \o (IF obj.symmetry THEN MirrorPairs(bottom) ELSE Pairs(bottom))

\* the vertices of a get_n run that is not interleaved with a writer
VerticesOf(obj) ==
    AssembleVertices(obj, TopOf(obj.symmetry, obj.design, obj.design),
                     BottomOf(obj.symmetry, obj.design, obj.design))

\* polygon = Point(0, self.length / 2).buffer(self.width / 2)
\* (the assembled vertices are not used: Polygon(vertices) is commented out)
PolygonOf(obj, vs) == Disk(obj.length, obj.width)

\* overlapping_area of one cell
OverlappingArea(xl, xu, zl, zu, polygon) ==
    IF Intersects(xl, xu, zl, zu, polygon)
    THEN IntersectionArea(xl, xu, zl, zu, polygon)
    ELSE 0

\* mutant of CellIndex: core and cladding exchanged in the subpixel blend
CellIndexSwapped(subpixel, core, clad, area, total) ==
    IF subpixel
    THEN Frac(area * Val(clad) + (total - area) * Val(core), total)
    ELSE IF area # 0
         THEN (IF core = None THEN NaN ELSE Frac(Val(core), 1))
         ELSE (IF clad = None THEN NaN ELSE Frac(Val(clad), 1))

\* n[j, i] of one cell (subpixel: both indices are set; otherwise numpy stores
\* NaN for an index that is None)
CellIndex(subpixel, core, clad, area, total) ==
    IF subpixel
    THEN Frac(area * Val(core) + (total - area) * Val(clad), total)
    ELSE IF area # 0
         THEN (IF core = None THEN NaN ELSE Frac(Val(core), 1))
         ELSE (IF clad = None THEN NaN ELSE Frac(Val(clad), 1))

\* the loop of get_n over the cells of the grid for a given polygon
Rasterize(obj, p, polygon) ==
    LET x == obj.grid_x
        z == obj.grid_z
        nx == IF Len(x) = 0 THEN 0 ELSE Len(x) - 1
        nz == IF Len(z) = 0 THEN 0 ELSE Len(z) - 1
    IN  IF obj.subpixel /\ nx > 0 /\ nz > 0
           /\ (p.core_index = None \/ p.cladding_index = None)
        THEN Raise("TypeError")
        ELSE Ok([j \in 1..nz |-> [i \in 1..nx |->
                CellIndex(obj.subpixel, p.core_index, p.cladding_index,
                          OverlappingArea(x[i], x[i + 1], z[j], z[j + 1], polygon),
                          (x[i + 1] - x[i]) * (z[j + 1] - z[j]))]])

\* DynamicRect2D.get_n
get_n(obj, p) == Rasterize(obj, p, PolygonOf(obj, VerticesOf(obj)))

\* DynamicRect2D.set_layers: returns the index map, assigns nothing
set_layers(obj, p) == [obj |-> obj, out |-> get_n(obj, p)]

\* mutant of set_design: the map is computed but the design is not stored
set_design_not_stored(obj, design, p) ==
    [obj |-> obj, out |-> get_n([obj EXCEPT !.design = design], p)]

\* mutant of set_design: a design of odd length is rejected before rasterization
set_design_validated(obj, design, p) ==
    IF Len(design) % 2 = 1
    THEN [obj |-> obj, out |-> Raise("GeometryError")]
    ELSE set_layers([obj EXCEPT !.design = design], p)

\* DynamicRect2D.set_design
set_design(obj, design, p) == set_layers([obj EXCEPT !.design = design], p)

\* DynamicPolygon.get_design
get_design(obj) == Ok(obj.design)

\* Geometry.__iter__: iter(self.layers)
Iter(obj) == IF obj.layers = None THEN Raise("AttributeError") ELSE Ok(Val(obj.layers))

\* DynamicRect2D.__init__: the object, or Unbuilt when set_design raised
DynamicRect2D(p, width, length, num_params, symmetry, subpixel, mesh_z) ==
    LET r == set_design(InitAttributes(p, width, length, symmetry, subpixel, mesh_z),
                        InitialDesign(width, length, num_params, symmetry), p)
    IN  IF r.out.raised # NoExc
        THEN [obj |-> Unbuilt, out |-> r.out]
        ELSE [obj |-> r.obj, out |-> Ok(None)]

(***************************************************************************)
(* Sequential use of one DynamicRect2D: construction, then any sequence of *)
(* set_design, get_n, get_design and iteration                             *)
(***************************************************************************)
\* design vectors an optimizer may pass, malformed ones included
Designs == UNION {[1..n -> Coord] : n \in 0..MaxDesignLen}

\* (core_index, cladding_index) of the runs with both indices set
IndexPairs == {<<3, 1>>}

\* params.x: unset, or a user grid with cells of different widths
UserGrids == {None, Some(<<-5, -3, -1, 1, 2>>)}

Widths == {4}

Lengths == {4}

NumParams == {1, 3}

MeshZ == {3}

\* parameter objects with both indices set (wavelength 1550, cladding width 8,
\* mesh 5)
DynParams ==
    {EMpyGeometryParameters(1550, 8, Some(ip[1]), Some(ip[2]), x, 5) :
        ip \in IndexPairs, x \in UserGrids}

NoCall == [op |-> "none", arg |-> <<>>, out |-> Ok(None)]

Init ==
    /\ params \in DynParams
    /\ self = Unbuilt
    /\ ret = NoCall
    /\ vertices = <<>>
    /\ lastArg = <<>>
    /\ heap = <<>>
    /\ thr = <<>>
    /\ writer = <<>>
    /\ geom = <<>>
    /\ chan = <<>>

\* dd = DynamicRect2D(params, width, length, num_params, symmetry, subpixel, mesh_z)
Construct ==
    /\ ~self.built
    /\ \E width \in Widths, length \in Lengths, num_params \in NumParams,
          symmetry \in BOOLEAN, subpixel \in BOOLEAN, mesh_z \in MeshZ :
          LET r == DynamicRect2D(params, width, length, num_params, symmetry,
                                 subpixel, mesh_z)
              d == InitialDesign(width, length, num_params, symmetry)
          IN  /\ self' = r.obj
              /\ ret' = [op |-> "__init__", arg |-> d, out |-> r.out]
              /\ vertices' = IF r.obj.built THEN VerticesOf(r.obj) ELSE <<>>
              /\ lastArg' = d
    /\ UNCHANGED <<params, heap, thr, writer, geom, chan>>

\* dd.set_design(d)
SetDesign ==
    /\ self.built
    /\ \E d \in Designs :
          LET r == set_design(self, d, params)
          IN  /\ self' = r.obj
              /\ ret' = [op |-> "set_design", arg |-> d, out |-> r.out]
              /\ vertices' = VerticesOf(r.obj)
              /\ lastArg' = d
    /\ UNCHANGED <<params, heap, thr, writer, geom, chan>>

\* dd.get_n()
GetN ==
    /\ self.built
    /\ ret' = [op |-> "get_n", arg |-> <<>>, out |-> get_n(self, params)]
    /\ vertices' = VerticesOf(self)
    /\ UNCHANGED <<params, self, lastArg, heap, thr, writer, geom, chan>>

\* dd.get_design()
GetDesign ==
    /\ self.built
    /\ ret' = [op |-> "get_design", arg |-> <<>>, out |-> get_design(self)]
    /\ UNCHANGED <<params, self, vertices, lastArg, heap, thr, writer, geom, chan>>

\* iter(dd), as the EME engine does to collect the layers
Iterate ==
    /\ self.built
    /\ ret' = [op |-> "__iter__", arg |-> <<>>, out |-> Iter(self)]
    /\ UNCHANGED <<params, self, vertices, lastArg, heap, thr, writer, geom, chan>>

Next == Construct \/ SetDesign \/ GetN \/ GetDesign \/ Iterate

Spec == Init /\ [][Next]_vars

(***************************************************************************)
(* Properties of the sequential runs                                       *)
(***************************************************************************)
\* a call of set_design or get_n that returned its index map
ReturnedMap == self.built /\ ret.op \in {"set_design", "get_n"} /\ ret.out.raised = NoExc

\* a design vector that cannot be split into whole (transverse, longitudinal)
\* pairs for the declared symmetry
Malformed(d, symmetry) ==
    \/ Len(d) % 2 = 1
    \/ ~symmetry /\ (Len(d) \div 2) % 2 = 1

\* C1: the index map returned by set_design(d), and by get_n afterwards, is the
\* rasterization of the closed polygon assembled from the static-left vertices,
\* the top dynamic vertices of d, the static-right vertices and the bottom
\* dynamic vertices of d.
C1_MapIsRasterOfDesignPolygon ==
    (ReturnedMap /\ ~Malformed(self.design, self.symmetry)) =>
        ret.out.val = Rasterize(self, params, Poly(vertices)).val

\* C2: get_design() returns exactly the design vector passed to the most recent
\* set_design call (the constructor's generated design when the user made
\* none), and each set_design call returns the index map computed for the
\* design it was given.
C2_DesignIsLastSet ==
    /\ self.built => self.design = lastArg
    /\ ret.op = "get_design" => ret.out = Ok(lastArg)
    /\ ret.op = "__init__" /\ self.built => self.design = ret.arg
    /\ ret.op = "set_design" =>
          /\ ret.arg = lastArg
          /\ ret.out.raised = NoExc
          /\ ret.out.val = get_n([self EXCEPT !.design = ret.arg], params).val
          /\ Len(ret.out.val) = Len(self.grid_z) - 1

\* C2 witness: get_design after a user's set_design of a four-entry design
C2_Witness ==
    /\ ret.op = "get_design"
    /\ ret.out.val = <<1, 0, 0, 1>>
    /\ lastArg = <<1, 0, 0, 1>>

\* C3: every set_design call, the constructor's included, rebuilds the Layers
\* the geometry owns: after construction and after each set_design the geometry
\* holds an ordered Layer sequence, and iteration over the geometry yields it.
C3_LayersRebuilt ==
    self.built =>
        /\ self.layers # None
        /\ ret.op = "__iter__" => ret.out.raised = NoExc

\* C4 (as stated): set_design called with a malformed design vector fails with
\* a GeometryError at assignment time: no index map is returned and the design
\* length stays even in every reachable state.
C4_MalformedRejected ==
    /\ self.built => Len(self.design) % 2 = 0
    /\ ret.op = "set_design" /\ Malformed(ret.arg, self.symmetry) =>
          ret.out.raised = "GeometryError"

\* C4 (amended): set_design validates nothing.  With both indices set, every
\* call, a malformed design included, stores the vector as given, runs the
\* rasterization and returns the full index map; vertex assembly pairs the
\* entries of each half two by two and drops an unpaired last entry.
C4_MalformedAccepted ==
    ret.op = "set_design" =>
        LET n == Len(ret.arg)
        IN  /\ ret.out.raised = NoExc
            /\ self.design = ret.arg
            /\ Len(ret.out.val) = Len(self.grid_z) - 1
            /\ \A j \in 1..Len(ret.out.val) :
                  Len(ret.out.val[j]) = Len(self.grid_x) - 1
            /\ Len(vertices) =
                  IF self.symmetry
                  THEN 4 + 2 * (n \div 2)
                  ELSE 4 + ((n \div 2) \div 2) + ((n - (n \div 2)) \div 2)

\* C4 witness: set_design of a three-entry design returned an index map
C4_Witness ==
    /\ ret.op = "set_design"
    /\ Len(ret.arg) = 3
    /\ ret.out.raised = NoExc
    /\ self.design = ret.arg

\* C7: with symmetry=True and an even-length design the vertex loop of get_n is
\* [static-left, top vertices in design order, static-right, mirrored vertices
\* (-x, z) of the top vertices in reverse order], and for every vertex (x, z)
\* of the loop the vertex (-x, z) is in the loop too.
C7_SymmetricLoop ==
    (self.built /\ self.symmetry /\ Len(self.design) % 2 = 0) =>
        LET d == self.design
            n == Len(d) \div 2
            v == vertices
            h == self.width \div 2
        IN  /\ Len(v) = 4 + 2 * n
            /\ v[1] = <<-h, 0>>
            /\ v[2] = <<h, 0>>
            /\ \A k \in 1..n : v[2 + k] = <<d[2 * k - 1], d[2 * k]>>
            /\ v[n + 3] = <<h, self.length>>
            /\ v[n + 4] = <<-h, self.length>>
            /\ \A k \in 1..n :
                  v[n + 4 + k] = <<-(d[2 * (n - k + 1) - 1]), d[2 * (n - k + 1)]>>
            /\ \A k \in 1..Len(v) : \E m \in 1..Len(v) : v[m] = <<-(v[k][1]), v[k][2]>>

\* C7 witness: a symmetric geometry whose design holds two different vertices
C7_Witness ==
    /\ self.built
    /\ self.symmetry
    /\ ret.op = "set_design"
    /\ self.design = <<1, 0, 0, 1>>
    /\ Len(vertices) = 8

\* the cells of the returned map
Cells == {c \in (1..(Len(self.grid_z) - 1)) \X (1..(Len(self.grid_x) - 1)) : TRUE}

\* area of cell c = (j, i)
CellArea(c) ==
    (self.grid_x[c[2] + 1] - self.grid_x[c[2]]) * (self.grid_z[c[1] + 1] - self.grid_z[c[1]])

\* area of the overlap of cell c = (j, i) with the polygon get_n rasterizes
CellOverlap(c) ==
    IntersectionArea(self.grid_x[c[2]], self.grid_x[c[2] + 1],
                     self.grid_z[c[1]], self.grid_z[c[1] + 1],
                     PolygonOf(self, vertices))

\* C9: for every cell (j, i) of the (K-1) x (M-1) map, with fraction = overlap
\* area / cell area: in subpixel mode the value is fraction*core +
\* (1-fraction)*cladding, otherwise core when fraction > 0 and cladding when
\* not; every value lies between the two indices, and a value strictly between
\* them occurs only in subpixel mode in a cell the polygon partly covers.
C9_CellValues ==
    ReturnedMap =>
        LET n == ret.out.val
            core == Val(params.core_index)
            clad == Val(params.cladding_index)
            lo == IF core < clad THEN core ELSE clad
            hi == IF core < clad THEN clad ELSE core
        IN  /\ Len(n) = Len(self.grid_z) - 1
            /\ \A j \in 1..Len(n) : Len(n[j]) = Len(self.grid_x) - 1
            /\ \A c \in Cells :
                  LET v == n[c[1]][c[2]]
                      a == CellOverlap(c)
                      t == CellArea(c)
                  IN  /\ v.den > 0
                      /\ self.subpixel =>
                            v.num * t = (a * core + (t - a) * clad) * v.den
                      /\ ~self.subpixel =>
                            v.num = (IF a > 0 THEN core ELSE clad) * v.den
                      /\ lo * v.den <= v.num /\ v.num <= hi * v.den
                      /\ (lo * v.den < v.num /\ v.num < hi * v.den) =>
                            (self.subpixel /\ 0 < a /\ a < t)

\* C9 witness: a subpixel map with a cell inside the polygon, a cell outside it
\* and a cell it partly covers, whose value is strictly between the indices
C9_Witness ==
    /\ ReturnedMap
    /\ self.subpixel
    /\ \E c \in Cells : CellOverlap(c) = CellArea(c)
                        /\ ret.out.val[c[1]][c[2]].num
                           = Val(params.core_index) * ret.out.val[c[1]][c[2]].den
    /\ \E c \in Cells : CellOverlap(c) = 0
                        /\ ret.out.val[c[1]][c[2]].num
                           = Val(params.cladding_index) * ret.out.val[c[1]][c[2]].den
    /\ \E c \in Cells :
          /\ 0 < CellOverlap(c) /\ CellOverlap(c) < CellArea(c)
          /\ Val(params.cladding_index) * ret.out.val[c[1]][c[2]].den
             < ret.out.val[c[1]][c[2]].num
          /\ ret.out.val[c[1]][c[2]].num
             < Val(params.core_index) * ret.out.val[c[1]][c[2]].den

(***************************************************************************)
(* Concurrent set_design calls.  Threads 1 and 2 call set_design on        *)
(* instance "a", thread 3 on instance "b", each any number of times.  A    *)
(* call is the sequence of its                                              *)
(* reads and writes of the design attribute: the assignment of             *)
(* set_design, the reads of self.design in get_n (for the top list and     *)
(* for the bottom list; without symmetry each is sliced with a len() of a  *)
(* second read), then the rasterization on the call's own locals.          *)
(***************************************************************************)
Threads == {1, 2, 3}

Instances == {"a", "b"}

TargetOf(t) == IF t = 3 THEN "b" ELSE "a"

\* designs the concurrent callers pass
ConcDesigns == {<<0, 0, 1, 1>>, <<1, 1, 0, 1, 0, 0, 1, 0>>}

IdleFrame ==
    [pc |-> "idle", arg |-> <<>>, tmp |-> <<>>, top |-> <<>>,
     bottom |-> <<>>, vs |-> <<>>, out |-> Ok(None)]

\* mutant of StoreDesign: design is one attribute shared by all instances
StoreDesignShared(h, i, d) == [k \in DOMAIN h |-> [h[k] EXCEPT !.design = d]]

\* self.design = design on instance i of the heap h
StoreDesign(h, i, d) == [h EXCEPT ![i].design = d]

InitConc ==
    /\ params \in {q \in DynParams : q.x = None}
    /\ \E symmetry \in BOOLEAN :
          heap = [i \in Instances |->
                     DynamicRect2D(params, 4, 4, 1, symmetry, TRUE, 3).obj]
    /\ thr = [t \in Threads |-> IdleFrame]
    /\ writer = [i \in Instances |-> 0]
    /\ self = Unbuilt
    /\ ret = NoCall
    /\ vertices = <<>>
    /\ lastArg = <<>>
    /\ geom = <<>>
    /\ chan = <<>>

ConcUnchanged == UNCHANGED <<params, self, ret, vertices, lastArg, geom, chan>>

\* thread t enters set_design(d)
Call(t) ==
    /\ thr[t].pc \in {"idle", "done"}
    /\ \E d \in ConcDesigns :
          thr' = [thr EXCEPT ![t] = [IdleFrame EXCEPT !.pc = "write", !.arg = d]]
    /\ UNCHANGED <<heap, writer>>
    /\ ConcUnchanged

\* self.design = design
Write(t) ==
    /\ thr[t].pc = "write"
    /\ heap' = StoreDesign(heap, TargetOf(t), thr[t].arg)
    /\ writer' = [writer EXCEPT ![TargetOf(t)] = t]
    /\ thr' = [thr EXCEPT ![t].pc = "top"]
    /\ ConcUnchanged

\* get_n: the first read of self.design for top
ReadTop(t) ==
    /\ thr[t].pc = "top"
    /\ LET o == heap[TargetOf(t)]
       IN  thr' = IF o.symmetry
                  THEN [thr EXCEPT ![t].top = TopOf(TRUE, o.design, o.design),
                                   ![t].pc = "bottom"]
                  ELSE [thr EXCEPT ![t].tmp = o.design, ![t].pc = "toplen"]
    /\ UNCHANGED <<heap, writer>>
    /\ ConcUnchanged

\* get_n: len(self.design) of the slice for top
ReadTopLen(t) ==
    /\ thr[t].pc = "toplen"
    /\ thr' = [thr EXCEPT ![t].top = TopOf(FALSE, thr[t].tmp, heap[TargetOf(t)].design),
                          ![t].tmp = <<>>,
                          ![t].pc = "bottom"]
    /\ UNCHANGED <<heap, writer>>
    /\ ConcUnchanged

\* get_n: the first read of self.design for bottom
ReadBottom(t) ==
    /\ thr[t].pc = "bottom"
    /\ LET o == heap[TargetOf(t)]
       IN  thr' = IF o.symmetry
                  THEN [thr EXCEPT ![t].bottom = BottomOf(TRUE, o.design, o.design),
                                   ![t].pc = "raster"]
                  ELSE [thr EXCEPT ![t].tmp = o.design, ![t].pc = "bottomlen"]
    /\ UNCHANGED <<heap, writer>>
    /\ ConcUnchanged

\* get_n: len(self.design) of the slice for bottom
ReadBottomLen(t) ==
    /\ thr[t].pc = "bottomlen"
    /\ thr' = [thr EXCEPT ![t].bottom =
                              BottomOf(FALSE, thr[t].tmp, heap[TargetOf(t)].design),
                          ![t].tmp = <<>>,
                          ![t].pc = "raster"]
    /\ UNCHANGED <<heap, writer>>
    /\ ConcUnchanged

\* get_n: the vertex list, the polygon and the loop over the cells; the call
\* returns the map
Raster(t) ==
    /\ thr[t].pc = "raster"
    /\ LET o == heap[TargetOf(t)]
           vs == AssembleVertices(o, thr[t].top, thr[t].bottom)
       IN  thr' = [thr EXCEPT ![t].vs = vs,
                              ![t].out = Rasterize(o, params, PolygonOf(o, vs)),
                              ![t].pc = "done"]
    /\ UNCHANGED <<heap, writer>>
    /\ ConcUnchanged

NextConc ==
    \E t \in Threads :
        \/ Call(t)
        \/ Write(t)
        \/ ReadTop(t)
        \/ ReadTopLen(t)
        \/ ReadBottom(t)
        \/ ReadBottomLen(t)
        \/ Raster(t)

SpecConc == InitConc /\ [][NextConc]_vars

\* the vertex list a call on object o assembles when it reads only design d
VerticesFor(o, d) ==
    AssembleVertices(o, TopOf(o.symmetry, d, d), BottomOf(o.symmetry, d, d))

MSEMpy(wavelength, width, thickness, num_modes, cladding_width, core_index, cladding_index, x, mesh, n) ==
    IF core_index = None \/ cladding_index = None
    THEN Raise("ConfigurationError")
    ELSE Ok([wavelength |-> wavelength, width |-> width, thickness |-> thickness,
             num_modes |-> num_modes, cladding_width |-> cladding_width,
             core_index |-> core_index, cladding_index |-> cladding_index,
             x |-> x, mesh |-> mesh, n |-> n])

\* emepy.models.Layer(mode_solver, num_modes, wavelength, length)
Layer(mode_solver, num_modes, wavelength, length) ==
    [mode_solver |-> mode_solver, num_modes |-> num_modes,
     wavelength |-> wavelength, length |-> length]

\* EMpyGeometryParameters.get_solver_rect
get_solver_rect(p, width, thickness, num_modes) ==
    MSEMpy(p.wavelength, Some(width), thickness, num_modes, p.cladding_width,
           p.core_index, p.cladding_index, p.x, p.mesh, None)

\* EMpyGeometryParameters.get_solver_index
get_solver_index(p, thickness, num_modes, n) ==
    MSEMpy(p.wavelength, None, thickness, num_modes, p.cladding_width,
           p.core_index, p.cladding_index, p.x, p.mesh, Some(n))

(***************************************************************************)
(* Geometry and its composite variants.  A construction yields the object  *)
(* (built, with its layers) or the exception it raised, and the stages it  *)
(* went through in order: "profile" (a transverse index profile is         *)
(* computed), "factory" (a solver factory is called), "raster" (get_n).    *)
(***************************************************************************)
\* Geometry.__init__(layers) of a constructor that went through `trace`
Geometry(kind, layers, trace) ==
    [kind |-> kind, built |-> TRUE, layers |-> Some(layers), raised |-> NoExc,
     trace |-> trace]

\* a constructor that raised e after `trace`
Failed(kind, e, trace) ==
    [kind |-> kind, built |-> FALSE, layers |-> None, raised |-> e, trace |-> trace]

\* Waveguide.__init__
Waveguide(p, width, thickness, length, num_modes) ==
    LET mode_solver == get_solver_rect(p, width, thickness, num_modes)
    IN  IF mode_solver.raised # NoExc
        THEN Failed("Waveguide", mode_solver.raised, <<"factory">>)
        ELSE Geometry("Waveguide",
                      <<Layer(mode_solver.val, num_modes, p.wavelength, length)>>,
                      <<"factory">>)

\* mutant of ChannelWhere: samples outside the channel are reset to cladding
ChannelWhereReset(p, left2, right2, n_output) ==
    [i \in 1..Len(n_output) |->
        IF left2 <= 2 * Val(p.x)[i] /\ 2 * Val(p.x)[i] <= right2
        THEN p.core_index
        ELSE p.cladding_index]

\* np.where((left_edge <= params.x) * (params.x <= right_edge),
\*          params.core_index, n_output); the edges are doubled
ChannelWhere(p, left2, right2, n_output) ==
    [i \in 1..Len(n_output) |->
        IF left2 <= 2 * Val(p.x)[i] /\ 2 * Val(p.x)[i] <= right2
        THEN p.core_index
        ELSE n_output[i]]

IdleChan ==
    [pc |-> "idle", a |-> <<>>, starting_center2 |-> 0, n_output |-> <<>>,
     out |-> 0, raised |-> NoExc, trace |-> <<>>]

\* mutant of ChannelsStart: the indices are validated before the profile
ChannelsStartValidated(p, a) ==
    IF p.cladding_index = None \/ p.core_index = None
    THEN [IdleChan EXCEPT !.pc = "raised", !.a = a, !.raised = "ConfigurationError",
                          !.trace = <<"factory">>]
    ELSE [IdleChan EXCEPT !.pc = "loop", !.a = a,
                          !.starting_center2 = -((a.num_channels - 1) * (a.gap + a.width)),
                          !.n_output = [i \in 1..p.mesh |-> p.cladding_index],
                          !.trace = <<"profile">>]

\* WaveguideChannels.__init__ up to the loop: starting_center (doubled) and
\* n_output = np.ones(params.mesh) * params.cladding_index
ChannelsStart(p, a) ==
    IF p.cladding_index = None
    THEN [IdleChan EXCEPT !.pc = "raised", !.a = a, !.raised = "TypeError",
                          !.trace = <<"profile">>]
    ELSE [IdleChan EXCEPT !.pc = "loop", !.a = a,
                          !.starting_center2 = -((a.num_channels - 1) * (a.gap + a.width)),
                          !.n_output = [i \in 1..p.mesh |-> p.cladding_index],
                          !.trace = <<"profile">>]

\* one iteration of `for out in range(num_channels)`
ChannelsIter(p, f) ==
    IF f.out \in f.a.exclude_indices
    THEN [f EXCEPT !.out = f.out + 1]
    ELSE IF p.x = None
         THEN [f EXCEPT !.pc = "raised", !.raised = "TypeError"]
         ELSE LET center2 == f.starting_center2 + 2 * f.out * (f.a.gap + f.a.width)
                  left2 == center2 - f.a.width
                  right2 == center2 + f.a.width
              IN  [f EXCEPT !.n_output = ChannelWhere(p, left2, right2, f.n_output),
                            !.out = f.out + 1]

\* WaveguideChannels.__init__ after the loop: the solver and the layer
ChannelsEnd(p, f) ==
    LET output_channel == get_solver_index(p, f.a.thickness, f.a.num_modes, f.n_output)
    IN  IF output_channel.raised # NoExc
        THEN Failed("WaveguideChannels", output_channel.raised,
                    f.trace \o <<"factory">>)
        ELSE Geometry("WaveguideChannels",
                      <<Layer(output_channel.val, f.a.num_modes, p.wavelength,
                              f.a.length)>>,
                      f.trace \o <<"factory">>)

RECURSIVE ChannelsLoop(_, _)
\* the whole loop over the channels
ChannelsLoop(p, f) ==
    IF f.pc # "loop" \/ f.out >= f.a.num_channels
    THEN f
    ELSE ChannelsLoop(p, ChannelsIter(p, f))

\* WaveguideChannels.__init__
WaveguideChannels(p, a) ==
    LET f == ChannelsLoop(p, ChannelsStart(p, a))
    IN  IF f.pc = "raised"
        THEN Failed("WaveguideChannels", f.raised, f.trace)
        ELSE ChannelsEnd(p, f)

ChannelArgs(width, thickness, length, num_modes, gap, num_channels, exclude_indices) ==
    [width |-> width, thickness |-> thickness, length |-> length,
     num_modes |-> num_modes, gap |-> gap, num_channels |-> num_channels,
     exclude_indices |-> exclude_indices]

\* mutant of BraggGrating: the right waveguide's layer comes first
BraggGratingSwapped(params_left, params_right, width_left, thickness_left, length_left, width_right, thickness_right, length_right, num_modes) ==
    LET waveguide_left ==
            Waveguide(params_left, width_left, thickness_left, length_left, num_modes)
        waveguide_right ==
            Waveguide(params_right, width_right, thickness_right, length_right, num_modes)
    IN  IF waveguide_left.raised # NoExc
        THEN Failed("BraggGrating", waveguide_left.raised, waveguide_left.trace)
        ELSE IF waveguide_right.raised # NoExc
        THEN Failed("BraggGrating", waveguide_right.raised,
                    waveguide_left.trace \o waveguide_right.trace)
        ELSE Geometry("BraggGrating",
                      Val(waveguide_right.layers) \o Val(waveguide_left.layers),
                      waveguide_left.trace \o waveguide_right.trace)

\* BraggGrating.__init__
BraggGrating(params_left, params_right, width_left, thickness_left, length_left, width_right, thickness_right, length_right, num_modes) ==
    LET waveguide_left ==
            Waveguide(params_left, width_left, thickness_left, length_left, num_modes)
        waveguide_right ==
            Waveguide(params_right, width_right, thickness_right, length_right, num_modes)
    IN  IF waveguide_left.raised # NoExc
        THEN Failed("BraggGrating", waveguide_left.raised, waveguide_left.trace)
        ELSE IF waveguide_right.raised # NoExc
        THEN Failed("BraggGrating", waveguide_right.raised,
                    waveguide_left.trace \o waveguide_right.trace)
        ELSE Geometry("BraggGrating",
                      Val(waveguide_left.layers) \o Val(waveguide_right.layers),
                      waveguide_left.trace \o waveguide_right.trace)

\* DirectionalCoupler.__init__
DirectionalCoupler(p, width, thickness, length, gap, num_modes) ==
    LET input == WaveguideChannels(p, ChannelArgs(width, thickness, length,
                                                  num_modes, gap, 2, {1}))
        coupler == WaveguideChannels(p, ChannelArgs(width, thickness, length,
                                                    num_modes, gap, 2, {}))
    IN  IF input.raised # NoExc
        THEN Failed("DirectionalCoupler", input.raised, input.trace)
        ELSE IF coupler.raised # NoExc
        THEN Failed("DirectionalCoupler", coupler.raised, input.trace \o coupler.trace)
        ELSE Geometry("DirectionalCoupler",
                      Val(input.layers) \o Val(coupler.layers),
                      input.trace \o coupler.trace)

(***************************************************************************)
(* Construction of one geometry of any variant, then iteration over it.    *)
(* WaveguideChannels.__init__ runs one loop iteration per step.            *)
(***************************************************************************)
\* most channels of a WaveguideChannels
MaxChannels == 3

\* params.x of the composite runs: unset, or nine samples one unit apart
GeomGrids == {None, Some(<<-4, -3, -2, -1, 0, 1, 2, 3, 4>>)}

\* parameter objects, the material indices set or unset (wavelength 1550,
\* cladding width 8, mesh 9)
GeomParams ==
    {EMpyGeometryParameters(1550, 8, core, clad, x, 9) :
        core \in {None, Some(3)}, clad \in {None, Some(1)}, x \in GeomGrids}

\* channel gaps: overlapping, touching and separate channels
Gaps == {-1, 0, 1}

NoGeom == [kind |-> "none", built |-> FALSE, layers |-> None, raised |-> NoExc,
           trace |-> <<>>, args |-> <<>>]

\* the geometry object with the arguments of its construction
WithArgs(g, a) ==
    [kind |-> g.kind, built |-> g.built, layers |-> g.layers, raised |-> g.raised,
     trace |-> g.trace, args |-> a]

InitGeom ==
    /\ params \in GeomParams
    /\ geom = NoGeom
    /\ chan = IdleChan
    /\ ret = NoCall
    /\ self = Unbuilt
    /\ vertices = <<>>
    /\ lastArg = <<>>
    /\ heap = <<>>
    /\ thr = <<>>
    /\ writer = <<>>

GeomUnchanged == UNCHANGED <<params, self, vertices, lastArg, heap, thr, writer>>

Fresh == geom.kind = "none" /\ chan.pc = "idle"

\* Waveguide(params, width, thickness, length, num_modes)
NewWaveguide ==
    /\ Fresh
    /\ \E width \in {2, 3}, length \in {4, 5} :
          geom' = WithArgs(Waveguide(params, width, 1, length, 1),
                           [width |-> width, length |-> length])
    /\ UNCHANGED <<chan, ret>>
    /\ GeomUnchanged

\* WaveguideChannels(...): entry, up to the loop
ChannelsBegin ==
    /\ Fresh
    /\ \E gap \in Gaps, num_channels \in 0..MaxChannels :
       \E exclude_indices \in SUBSET (0..(num_channels - 1)) :
          LET a == ChannelArgs(2, 1, 4, 1, gap, num_channels, exclude_indices)
              f == ChannelsStart(params, a)
          IN  /\ chan' = f
              /\ geom' = IF f.pc = "raised"
                         THEN WithArgs(Failed("WaveguideChannels", f.raised, f.trace), a)
                         ELSE geom
    /\ UNCHANGED ret
    /\ GeomUnchanged

\* WaveguideChannels(...): one iteration of the loop over the channels
ChannelsStep ==
    /\ chan.pc = "loop"
    /\ chan.out < chan.a.num_channels
    /\ LET f == ChannelsIter(params, chan)
       IN  /\ chan' = f
           /\ geom' = IF f.pc = "raised"
                      THEN WithArgs(Failed("WaveguideChannels", f.raised, f.trace), chan.a)
                      ELSE geom
    /\ UNCHANGED ret
    /\ GeomUnchanged

\* WaveguideChannels(...): the solver factory and the layer
ChannelsFinish ==
    /\ chan.pc = "loop"
    /\ chan.out >= chan.a.num_channels
    /\ LET g == ChannelsEnd(params, chan)
       IN  /\ geom' = WithArgs(g, chan.a)
           /\ chan' = [chan EXCEPT !.pc = IF g.built THEN "done" ELSE "raised",
                                   !.raised = g.raised,
                                   !.trace = g.trace]
    /\ UNCHANGED ret
    /\ GeomUnchanged

\* BraggGrating(params_left, params_right, ...)
NewBraggGrating ==
    /\ Fresh
    /\ \E params_right \in GeomParams, width_left \in {2}, width_right \in {3},
          length_left \in {4, 5}, length_right \in {4, 5} :
          geom' = WithArgs(BraggGrating(params, params_right, width_left, 1,
                                        length_left, width_right, 1, length_right, 1),
                           [params_right |-> params_right,
                            width_left |-> width_left, width_right |-> width_right,
                            length_left |-> length_left, length_right |-> length_right])
    /\ UNCHANGED <<chan, ret>>
    /\ GeomUnchanged

\* DirectionalCoupler(params, width, thickness, length, gap, num_modes)
NewDirectionalCoupler ==
    /\ Fresh
    /\ \E gap \in Gaps, length \in {4, 5} :
          geom' = WithArgs(DirectionalCoupler(params, 2, 1, length, gap, 1),
                           [width |-> 2, gap |-> gap, length |-> length])
    /\ UNCHANGED <<chan, ret>>
    /\ GeomUnchanged

\* DynamicRect2D(params, ...): no factory is called, get_n runs once
BuildDynamicRect2D ==
    /\ Fresh
    /\ \E symmetry \in BOOLEAN, subpixel \in BOOLEAN :
          LET r == DynamicRect2D(params, 4, 4, 1, symmetry, subpixel, 3)
          IN  geom' = [kind |-> "DynamicRect2D", built |-> r.obj.built,
                       layers |-> IF r.obj.built THEN r.obj.layers ELSE None,
                       raised |-> r.out.raised, trace |-> <<"raster">>,
                       args |-> [symmetry |-> symmetry, subpixel |-> subpixel]]
    /\ UNCHANGED <<chan, ret>>
    /\ GeomUnchanged

\* iter(geometry), as the EME engine does to collect the layers
IterGeom ==
    /\ geom.built
    /\ ret' = [op |-> "__iter__", arg |-> <<>>, out |-> Iter(geom)]
    /\ UNCHANGED <<geom, chan>>
    /\ GeomUnchanged

NextGeom ==
    \/ NewWaveguide
    \/ ChannelsBegin
    \/ ChannelsStep
    \/ ChannelsFinish
    \/ NewBraggGrating
    \/ NewDirectionalCoupler
    \/ BuildDynamicRect2D
    \/ IterGeom

SpecGeom == InitGeom /\ [][NextGeom]_vars

(***************************************************************************)
(* Properties of the composite runs                                        *)
(***************************************************************************)
\* a material index of the parameter object is unset
IndexUnset == params.core_index = None \/ params.cladding_index = None

InChannel(i, k, a) ==
    LET c2 == -((a.num_channels - 1) * (a.gap + a.width)) + 2 * k * (a.gap + a.width)
    IN  c2 - a.width <= 2 * Val(params.x)[i] /\ 2 * Val(params.x)[i] <= c2 + a.width

\* the profile after the channels of `done` have been processed
ProfileOf(a, done) ==
    [i \in 1..params.mesh |->
        IF \E k \in done \ a.exclude_indices : InChannel(i, k, a)
        THEN params.core_index
        ELSE params.cladding_index]

\* C6: the transverse index profile of WaveguideChannels has, for every sample
\* x_i, the value core_index iff x_i lies in the interval of a channel
\* k in 0..N-1 that is not excluded, and cladding_index otherwise; after each
\* loop iteration this holds of the channels processed so far, so a later
\* channel never changes a sample an earlier one set; the finished profile is
\* the one passed to the solver.
C6_ChannelProfile ==
    /\ chan.pc = "loop" =>
          chan.n_output = ProfileOf(chan.a, 0..(chan.out - 1))
    /\ (geom.kind = "WaveguideChannels" /\ "factory" \in {geom.trace[k] : k \in DOMAIN geom.trace}) =>
          chan.n_output = ProfileOf(geom.args, 0..(geom.args.num_channels - 1))
    /\ (geom.kind = "WaveguideChannels" /\ geom.built) =>
          /\ Len(Val(geom.layers)) = 1
          /\ Val(geom.layers)[1].mode_solver.n
             = Some(ProfileOf(geom.args, 0..(geom.args.num_channels - 1)))

\* C6 witness: three channels of width 2 and gap 1 with channel 1 excluded:
\* core on [-4,-2] and [2,4], cladding on [-1,1]
C6_Witness ==
    /\ geom.kind = "WaveguideChannels"
    /\ geom.built
    /\ geom.args.num_channels = 3
    /\ geom.args.exclude_indices = {1}
    /\ geom.args.gap = 1
    /\ Val(Val(geom.layers)[1].mode_solver.n)
       = <<Some(3), Some(3), Some(3), Some(1), Some(1), Some(1), Some(3), Some(3), Some(3)>>

\* C10: the layer sequence of a composite geometry is the concatenation, in
\* construction order, of its sub-geometries' layers: Waveguide yields one
\* Layer; BraggGrating two, the left waveguide's (width_left, length_left,
\* params_left) first; DirectionalCoupler two, the two-channel profile with
\* channel 1 excluded first and the full two-channel profile second;
\* iteration yields the layers in this order.
C10_LayerOrder ==
    LET ls == Val(geom.layers)
    IN  /\ (geom.built /\ geom.kind = "Waveguide") =>
              /\ Len(ls) = 1
              /\ ls[1].mode_solver.width = Some(geom.args.width)
              /\ ls[1].mode_solver.n = None
              /\ ls[1].length = geom.args.length
              /\ ls[1].wavelength = params.wavelength
        /\ (geom.built /\ geom.kind = "BraggGrating") =>
              /\ Len(ls) = 2
              /\ ls[1].mode_solver.width = Some(geom.args.width_left)
              /\ ls[1].length = geom.args.length_left
              /\ ls[1].mode_solver.x = params.x
              /\ ls[2].mode_solver.width = Some(geom.args.width_right)
              /\ ls[2].length = geom.args.length_right
              /\ ls[2].mode_solver.x = geom.args.params_right.x
        /\ (geom.built /\ geom.kind = "DirectionalCoupler") =>
              LET a == ChannelArgs(geom.args.width, 1, geom.args.length, 1,
                                   geom.args.gap, 2, {})
              IN  /\ Len(ls) = 2
                  /\ ls[1].mode_solver.n = Some(ProfileOf(a, {0}))
                  /\ ls[2].mode_solver.n = Some(ProfileOf(a, {0, 1}))
                  /\ ls[1].mode_solver.width = None
                  /\ ls[1].length = geom.args.length
                  /\ ls[2].length = geom.args.length
        /\ (geom.built /\ ret.op = "__iter__" /\ geom.kind # "DynamicRect2D") =>
              ret.out = Ok(ls)

\* C10 witness: iteration over a BraggGrating whose halves differ in width,
\* length and parameter object
C10_Witness ==
    /\ geom.kind = "BraggGrating"
    /\ geom.built
    /\ ret.op = "__iter__"
    /\ ret.out.raised = NoExc
    /\ Len(ret.out.val) = 2
    /\ geom.args.length_left # geom.args.length_right
    /\ geom.args.params_right.x # params.x

====
